---- MODULE Spec2Model ----
(***************************************************************************)
(* A model of the radiance-field renderer: the voxel field and its two     *)
(* sampling filters (spherical.rs), the CPU renderer and its worker pool   *)
(* (render_cpu.rs), and the batched GPU renderer (render_gpu.rs).          *)
(*                                                                         *)
(* Numbers.  An f32 is modelled as a fixed-point integer counting units of *)
(* 1/ONE; products and quotients round toward zero.  A usize is a natural  *)
(* number.  Option<T> is a sequence: <<>> is None and <<v>> is Some(v).    *)
(***************************************************************************)
EXTENDS Integers, Sequences, FiniteSets, TLC

VARIABLES
    field,      \* the RadianceField handed to the program: [size, cells]
    call,       \* SpecField: the last sampling call and what it did
    gpc,        \* SpecGpu: where main's GPU path stands
    result,     \* SpecGpu: how the GPU path ended ("running" until it does)
    screen,     \* SpecGpu: <<screen_width, screen_height>>
    acquired,   \* SpecGpu: how often GpuContext::new asked for an adapter / a device
    deviceLog,  \* SpecGpu: the device objects created and queue writes made, in order
    queue,      \* SpecGpu: the command buffers submitted, each with its status
    image,      \* SpecGpu: screen_image, as the sequence of batch passes folded into it
    batch_index,         \* SpecGpu: the batch radiance_field_to_textures is building
    slices,              \* SpecGpu: the texture slices of that batch computed so far
    field_texture_data,  \* SpecGpu: the batches built so far
    pass_i,              \* SpecGpu: the loop index of render_gpu's pass loop
    readback,            \* SpecGpu: cpu_screen_buffer: [data, map], and the returned pixels
    render_configuration,  \* SpecCpu: the RenderConfiguration main reads
    cpc,           \* SpecCpu: where the CPU path stands
    cpu_screen,    \* SpecCpu: <<screen_width, screen_height>>
    computed,      \* SpecCpu: the items of the parallel iterator that are finished
    reordered,     \* SpecCpu: an item finished before an item of lower index
    cpu_image,     \* SpecCpu: `image` of render_image_cpu, one slot per pixel
    cpu_bytes,     \* SpecCpu: the Vec<u8> render_image_cpu returns
    single_image,  \* SpecCpu: the buffer of the single-threaded variant
    marches,       \* SpecCpu: the calls of raymarch made so far
    ray_pc,        \* SpecRay: where get_color stands for the one pixel it resolves
    pixel_ray,     \* SpecRay: the pixel's ray, its hit and the interval marched
    march,         \* SpecRay: the locals of raymarch and the calls of get_info
    box_call       \* SpecBox: the last call of intersect_ray_box and its result

fieldVars == <<call>>

gpuVars == <<gpc, result, screen, acquired, deviceLog, queue, image, batch_index,
             slices, field_texture_data, pass_i, readback>>

cpuVars == <<render_configuration, cpc, cpu_screen, computed, reordered, cpu_image, cpu_bytes,
             single_image, marches>>

rayVars == <<ray_pc, pixel_ray, march, box_call>>

vars == <<field, call, gpc, result, screen, acquired, deviceLog, queue, image,
          batch_index, slices, field_texture_data, pass_i, readback,
          render_configuration, cpc, cpu_screen, computed, reordered, cpu_image,
          cpu_bytes, single_image, marches, ray_pc, pixel_ray, march,
          box_call>>

----------------------------------------------------------------------------
(* Bounds of the model. *)

\* resolution of the fixed-point numbers: 1.0 is ONE units
ONE == 100
\* largest field size drawn in the sampling specification
MaxSize == 3
\* largest field size drawn in the GPU specification
MaxGpuSize == 6
\* planes per batch: BATCH_SIZE is 64 in radiance_field_to_textures and in
\* render_gpu; the model scales it down, the fields drawn being multiples and
\* non-multiples of it
BATCH_SIZE == 2

----------------------------------------------------------------------------
(* Arithmetic helpers. *)

\* F applied to the value of v: the value is computed once, as a `let`
\* binding of the source is
Let(v, F(_)) == CHOOSE r \in { F(x) : x \in {v} } : TRUE

Let2(v, w, F(_, _)) == CHOOSE r \in { F(x, y) : x \in {v}, y \in {w} } : TRUE

Abs(a) == IF a < 0 THEN -a ELSE a

Sgn(a) == IF a < 0 THEN -1 ELSE 1

\* integer quotient rounded toward zero (b > 0)
TruncDiv(a, b) == Let(a, LAMBDA x : Sgn(x) * (Abs(x) \div b))

\* f32 product of two fixed-point numbers
FMul(a, b) == TruncDiv(a * b, ONE)

Max2(a, b) == Let2(a, b, LAMBDA x, y : IF x >= y THEN x ELSE y)

Min2(a, b) == Let2(a, b, LAMBDA x, y : IF x <= y THEN x ELSE y)

\* `f as usize` for a fixed-point f: truncation, negative values saturate to 0
AsUsize(f) == IF f <= 0 THEN 0 ELSE f \div ONE

None == <<>>

Some(v) == <<v>>

IsSome(o) == Len(o) = 1

----------------------------------------------------------------------------
(* spherical.rs: Cell *)

SPHERICAL_HARMONIC_WIDTH == 9

ShIndex == 1..SPHERICAL_HARMONIC_WIDTH

\* the basis constants of eval_sh, written in 1/10000
ShConst(tenThousandths) == TruncDiv(tenThousandths * ONE, 10000)

\* the nine basis values for direction d = <<x, y, z>>
ShBasis(d) ==
    LET x == d[1]
        y == d[2]
        z == d[3]
    IN  << ShConst(2821),
           FMul(-ShConst(4886), y),
           FMul(ShConst(4886), z),
           FMul(-ShConst(4886), x),
           FMul(FMul(ShConst(10925), x), y),
           FMul(FMul(-ShConst(10925), y), z),
           FMul(ShConst(3154), FMul(FMul(2 * ONE, z), z) - FMul(x, x) - FMul(y, y)),
           FMul(FMul(-ShConst(10925), x), z),
           FMul(ShConst(5463), FMul(x, x) - FMul(y, y)) >>

RECURSIVE SumUpTo(_, _)
SumUpTo(s, n) == IF n = 0 THEN 0 ELSE SumUpTo(s, n - 1) + s[n]

\* Cell::eval_sh: the dot product of the coefficients with the basis
eval_sh(direction, sh) ==
    LET b == ShBasis(direction)
    IN  SumUpTo([i \in ShIndex |-> FMul(sh[i], b[i])], SPHERICAL_HARMONIC_WIDTH)

CellValueNew(color, density) == [color |-> color, density |-> density]

\* a default value that absorbs light: density 1 instead of 0
CellValueDefault_Dense == CellValueNew(<<0, 0, 0>>, ONE)

\* CellValue::default()
CellValueDefault == CellValueNew(<<0, 0, 0>>, 0)

\* Cell::eval
CellEval(cell, direction) ==
    CellValueNew(<< eval_sh(direction, cell.sh_r),
                    eval_sh(direction, cell.sh_g),
                    eval_sh(direction, cell.sh_b) >>,
                 cell.density)

\* impl Add for Cell
CellAdd(a, b) ==
    [ density |-> a.density + b.density,
      sh_r |-> [i \in ShIndex |-> a.sh_r[i] + b.sh_r[i]],
      sh_g |-> [i \in ShIndex |-> a.sh_g[i] + b.sh_g[i]],
      sh_b |-> [i \in ShIndex |-> a.sh_b[i] + b.sh_b[i]] ]

\* impl Mul<f32> for Cell
CellMul(c, rhs) ==
    [ density |-> FMul(rhs, c.density),
      sh_r |-> [i \in ShIndex |-> FMul(rhs, c.sh_r[i])],
      sh_g |-> [i \in ShIndex |-> FMul(rhs, c.sh_g[i])],
      sh_b |-> [i \in ShIndex |-> FMul(rhs, c.sh_b[i])] ]

\* the weights with each axis's two factors exchanged: the cell offset by +1
\* on an axis gets 1 - fraction
TrilerpWeights_Mirrored(coeffs) ==
    LET x == ONE - coeffs[1]
        y == ONE - coeffs[2]
        z == ONE - coeffs[3]
        nx == coeffs[1]
        ny == coeffs[2]
        nz == coeffs[3]
    IN  << <<nx, ny, nz>>, <<nx, ny, z>>, <<nx, y, nz>>, <<nx, y, z>>,
           <<x, ny, nz>>,  <<x, ny, z>>,  <<x, y, nz>>,  <<x, y, z>> >>

\* the eight weights of Cell::trilerp, in the order of its eight terms:
\* term 0b_abc carries (a ? x : nx), (b ? y : ny), (c ? z : nz)
TrilerpWeights(coeffs) ==
    LET x == coeffs[1]
        y == coeffs[2]
        z == coeffs[3]
        nx == ONE - x
        ny == ONE - y
        nz == ONE - z
    IN  << <<nx, ny, nz>>, <<nx, ny, z>>, <<nx, y, nz>>, <<nx, y, z>>,
           <<x, ny, nz>>,  <<x, ny, z>>,  <<x, y, nz>>,  <<x, y, z>> >>

\* Cell::trilerp: values[k] * w1 * w2 * w3, summed left to right
trilerp(values, coeffs) ==
    LET w == TrilerpWeights(coeffs)
        term(k) == CellMul(CellMul(CellMul(values[k], w[k][1]), w[k][2]), w[k][3])
    IN  CellAdd(CellAdd(CellAdd(CellAdd(CellAdd(CellAdd(CellAdd(
            term(1), term(2)), term(3)), term(4)), term(5)), term(6)), term(7)), term(8))

----------------------------------------------------------------------------
(* spherical.rs: RadianceField *)

\* index_of with the z stride taken as size instead of size * size
index_of_LinearZ(size, index) == index[1] + size * index[2] + size * index[3]

\* RadianceField::index_of
index_of(size, index) == index[1] + size * index[2] + size * size * index[3]

\* slice::get on the backing sequence (flat is 0-based)
SliceGet(cells, flat) == IF flat < Len(cells) THEN Some(cells[flat + 1]) ELSE None

\* RadianceField::get
get(f, index) == SliceGet(f.cells, index_of(f.size, index))

\* RadianceField::eval_by_index
eval_by_index(f, index, direction) ==
    LET c == get(f, index)
    IN  IF IsSome(c) THEN Some(CellEval(c[1], direction)) ELSE None

\* the index eval_near computes: (size as f32 * pos) mapped through `as usize`
NearIndex(f, pos) == [a \in 1..3 |-> AsUsize(f.size * pos[a])]

\* RadianceField::eval_near
eval_near(f, pos, direction) == eval_by_index(f, NearIndex(f, pos), direction)

\* EPS of eval_trilinear is 1/EPS_INV
EPS_INV == 100

\* the margin test of eval_trilinear: pos < EPS or pos > 1 - EPS on some axis
TrilinearMarginRejects(pos) ==
    \E a \in 1..3 : \/ EPS_INV * pos[a] < ONE
                    \/ EPS_INV * pos[a] > (EPS_INV - 1) * ONE

\* lo_index of eval_trilinear: floor of the scaled position
LoIndex(f, pos) == [a \in 1..3 |-> AsUsize(f.size * pos[a])]

\* the second test taken one cell late: some i >= size
TrilinearIndexRejects_Late(f, lo) == \E a \in 1..3 : lo[a] >= f.size

\* the second test of eval_trilinear: some i + 1 >= size
TrilinearIndexRejects(f, lo) == \E a \in 1..3 : lo[a] + 1 >= f.size

\* the eight stencil indices, in the order of the source's array
StencilIndices(lo) ==
    << <<lo[1],     lo[2],     lo[3]>>,
       <<lo[1],     lo[2],     lo[3] + 1>>,
       <<lo[1],     lo[2] + 1, lo[3]>>,
       <<lo[1],     lo[2] + 1, lo[3] + 1>>,
       <<lo[1] + 1, lo[2],     lo[3]>>,
       <<lo[1] + 1, lo[2],     lo[3] + 1>>,
       <<lo[1] + 1, lo[2] + 1, lo[3]>>,
       <<lo[1] + 1, lo[2] + 1, lo[3] + 1>> >>

\* pos.fract_gl() of the scaled position: pos - floor(pos)
FractGl(f, pos) == [a \in 1..3 |-> (f.size * pos[a]) % ONE]

\* whether eval_trilinear returns None before it reads any cell
TrilinearRejects(f, pos) ==
    \/ TrilinearMarginRejects(pos)
    \/ TrilinearIndexRejects(f, LoIndex(f, pos))

\* the flat indices eval_trilinear hands to get_unchecked
StencilFlats(f, pos) ==
    LET ix == StencilIndices(LoIndex(f, pos))
    IN  [k \in 1..8 |-> index_of(f.size, ix[k])]

\* the rest of eval_trilinear once the eight cells `values` have been read
TrilinearBlend(f, pos, direction, values) ==
    Some(CellEval(trilerp(values, FractGl(f, pos)), direction))

\* RadianceField::eval_trilinear on a field whose reads stay in the sequence
eval_trilinear(f, pos, direction) ==
    IF TrilinearRejects(f, pos) THEN None
    ELSE TrilinearBlend(f, pos, direction,
                        [k \in 1..8 |-> f.cells[StencilFlats(f, pos)[k] + 1]])

----------------------------------------------------------------------------
(* Input fields. *)

\* the cell stored at flat index k of the input numbered `seed`: the
\* coefficients differ from cell to cell and from position to position
MakeCell(seed, k) ==
    [ density |-> (((k + seed) % 4) - 1) * ONE,
      sh_r |-> [i \in ShIndex |-> SPHERICAL_HARMONIC_WIDTH * k + (i - 1) + seed],
      sh_g |-> [i \in ShIndex |-> -(SPHERICAL_HARMONIC_WIDTH * k + (i - 1))],
      sh_b |-> [i \in ShIndex |-> ((SPHERICAL_HARMONIC_WIDTH * k + (i - 1)) % 5) - 2] ]

MakeField(size, len, seed) ==
    [ size |-> size, cells |-> [k \in 1..len |-> MakeCell(seed, k - 1)] ]

Cube(n) == n * n * n

\* a deserialized field: bincode checks nothing, so the cell sequence may be
\* shorter than size^3
FieldInputs(sizes) ==
    UNION { { MakeField(n, len, seed) :
                len \in {Cube(n), Max2(Cube(n) - 1, 0), n * n}, seed \in {0, 1} } :
            n \in sizes }

WellFormed(f) == Len(f.cells) = Cube(f.size)

\* `call` before any sampling call
NoCall ==
    [ op |-> "none", pos |-> <<0, 0, 0>>, index |-> <<0, 0, 0>>, flats |-> <<>>,
      outcome |-> "none", value |-> CellValueDefault ]

\* `render_configuration` before the configuration file is read
NoCfg ==
    [ camera |-> [ distance |-> 0, theta |-> 0, phi |-> 0, vfov |-> 0,
                   target_pos |-> <<0, 0, 0>> ],
      rm_settings |-> [ n_steps |-> 0 ] ]

\* the values the CPU variables hold while the CPU path is not running
CpuIdle ==
    /\ render_configuration = NoCfg
    /\ cpc = "idle"
    /\ cpu_screen = <<0, 0>>
    /\ computed = {}
    /\ reordered = FALSE
    /\ cpu_image = <<>>
    /\ cpu_bytes = <<>>
    /\ single_image = <<>>
    /\ marches = {}

\* `pixel_ray` before get_color is called
NoRay ==
    [ get_info |-> "none", item |-> 0, coord |-> <<0, 0>>, ro |-> <<0, 0, 0>>,
      rd |-> <<0, 0, 0>>, hit |-> <<>>, near |-> 0, far |-> 0, color |-> <<>> ]

\* the locals of raymarch before it is entered
NoMarch ==
    [ entered |-> FALSE, n_steps |-> 0, step_size |-> 0, color |-> <<0, 0, 0>>,
      density_sum |-> 0, calls |-> <<>> ]

\* `box_call` before intersect_ray_box is called
NoBoxCall ==
    [ called |-> FALSE, ro |-> <<0, 0, 0>>, rd |-> <<0, 0, 0>>,
      box_lo |-> <<0, 0, 0>>, box_hi |-> <<0, 0, 0>>, result |-> <<>> ]

\* the values the ray variables hold while no single ray is followed
RayIdle ==
    /\ ray_pc = "idle"
    /\ pixel_ray = NoRay
    /\ march = NoMarch
    /\ box_call = NoBoxCall

----------------------------------------------------------------------------
(* render_gpu.rs: radiance_field_to_textures *)

N_TEXTURE_SLICES == 9

\* field.size() * field.size() * BATCH_SIZE
Volume(f) == f.size * f.size * BATCH_SIZE

\* the number of batches: field.size() / BATCH_SIZE
NBatches(f) == f.size \div BATCH_SIZE

\* the assertion of radiance_field_to_textures
SizeDivisible(f) == f.size % BATCH_SIZE = 0

\* &field.cells[0..volume] whatever the batch
BatchCells_First(f, b) == SubSeq(f.cells, 1, Volume(f))

\* &field.cells[batch_index * volume..(batch_index + 1) * volume]
BatchCells(f, b) == SubSeq(f.cells, b * Volume(f) + 1, (b + 1) * Volume(f))

\* the texel built from one cell for coefficient position i (1-based)
Texel(cell, i) == <<cell.sh_r[i], cell.sh_g[i], cell.sh_b[i], cell.density>>

\* what the closure of flat_map_iter yields for coefficient position i
SliceTexels(batch, i) == [j \in 1..Len(batch) |-> Texel(batch[j], i)]

RECURSIVE ConcatUpTo(_, _)
ConcatUpTo(parts, n) == IF n = 0 THEN <<>> ELSE ConcatUpTo(parts, n - 1) \o parts[n]

\* collect::<Vec<_>>() of the parallel iterator: the parts in the order of
\* the range 0..N_TEXTURE_SLICES, whenever each was computed
CollectSlices(parts) == ConcatUpTo(parts, N_TEXTURE_SLICES)

----------------------------------------------------------------------------
(* render_gpu.rs: GpuContext::new and render_gpu, with the device *)

ScreenInputs == { <<8, 8>>, <<16, 8>>, <<12, 8>>, <<8, 12>> }

GpuFieldInputs == { MakeField(n, Cube(n), 0) : n \in 0..MaxGpuSize }

NoReadback == [ data |-> <<>>, map |-> "unmapped", pixels |-> <<>> ]

\* how the GPU path stands: running, done, stopped by a panic, or stopped by
\* main returning an Err
Outcome(kind, msg) == [ kind |-> kind, msg |-> msg ]

Running == Outcome("running", "")

\* GpuContext::new has asked for nothing yet
NotAcquired ==
    [ adapter_requests |-> 0, adapter |-> "unasked",
      device_requests |-> 0, device |-> "unasked" ]

\* the values the GPU variables hold while the GPU path is not running
GpuIdle ==
    /\ gpc = "idle"
    /\ result = Running
    /\ screen = <<0, 0>>
    /\ acquired = NotAcquired
    /\ deviceLog = <<>>
    /\ queue = <<>>
    /\ image = <<>>
    /\ batch_index = 0
    /\ slices = <<>>
    /\ field_texture_data = <<>>
    /\ pass_i = 0
    /\ readback = NoReadback

GpuInit ==
    /\ field \in GpuFieldInputs
    /\ call = NoCall
    /\ gpc = "request_adapter"
    /\ result = Running
    /\ screen \in ScreenInputs
    /\ acquired = NotAcquired
    /\ deviceLog = <<>>
    /\ queue = <<>>
    /\ image = <<>>
    /\ batch_index = 0
    /\ slices = <<>>
    /\ field_texture_data = <<>>
    /\ pass_i = 0
    /\ readback = NoReadback
    /\ CpuIdle
    /\ RayIdle

\* the program stops: a panic, or main returning the error
Stop(kind, msg) ==
    /\ gpc' = "exit"
    /\ result' = Outcome(kind, msg)

\* GpuContext::new: request_adapter(..).await.expect(..)
RequestAdapter ==
    /\ gpc = "request_adapter"
    /\ \/ /\ acquired' = [acquired EXCEPT !.adapter_requests = @ + 1,
                                            !.adapter = "some"]
          /\ gpc' = "request_device"
          /\ UNCHANGED result
       \/ /\ acquired' = [acquired EXCEPT !.adapter_requests = @ + 1,
                                            !.adapter = "none"]
          /\ Stop("panic", "failed to request the adapter")
    /\ UNCHANGED <<rayVars, cpuVars, field, call, screen, deviceLog, queue, image,
                   batch_index, slices,
                   field_texture_data, pass_i, readback>>

\* GpuContext::new: adapter.request_device(..).await?, and main's `?` on new
RequestDevice ==
    /\ gpc = "request_device"
    /\ \/ /\ acquired' = [acquired EXCEPT !.device_requests = @ + 1, !.device = "ok"]
          /\ gpc' = "assert_screen"
          /\ UNCHANGED result
       \/ /\ acquired' = [acquired EXCEPT !.device_requests = @ + 1, !.device = "err"]
          /\ Stop("err", "RequestDeviceError")
    /\ UNCHANGED <<rayVars, cpuVars, field, call, screen, deviceLog, queue, image,
                   batch_index, slices,
                   field_texture_data, pass_i, readback>>

\* render_gpu: assert!(screen_width % 8 == 0); assert!(screen_height % 8 == 0)
AssertScreen ==
    /\ gpc = "assert_screen"
    /\ IF screen[1] % 8 = 0 /\ screen[2] % 8 = 0
       THEN gpc' = "create_shader" /\ UNCHANGED result
       ELSE Stop("panic", "assertion failed: screen size % 8 == 0")
    /\ UNCHANGED <<rayVars, cpuVars, field, call, screen, acquired, deviceLog, queue, image,
                   batch_index,
                   slices, field_texture_data, pass_i, readback>>

\* one step of render_gpu that only creates device objects or writes the queue
DeviceStep(at, ops, next) ==
    /\ gpc = at
    /\ deviceLog' = deviceLog \o ops
    /\ gpc' = next
    /\ UNCHANGED <<rayVars, cpuVars, field, call, result, screen, acquired, queue, image,
                   batch_index,
                   slices, field_texture_data, pass_i, readback>>

\* create_shader_module
CreateShader == DeviceStep("create_shader", <<"create_shader_module">>, "create_buffer")

\* create_buffer for cpu_screen_buffer
CreateScreenBuffer ==
    DeviceStep("create_buffer", <<"create_buffer: cpu_screen_buffer">>, "create_image")

\* create_texture_with_data for screen_image (zero-filled through the queue),
\* and its view
CreateScreenImage ==
    DeviceStep("create_image",
               <<"create_texture: screen_image", "queue.write_texture: screen_image",
                 "create_view: screen_image">>,
               "to_textures")

\* radiance_field_to_textures: the assertion, then the first batch
ToTexturesBegin ==
    /\ gpc = "to_textures"
    /\ IF ~SizeDivisible(field)
       THEN Stop("panic", "radiance field size should be divisible by BATCH_SIZE")
       ELSE /\ gpc' = IF NBatches(field) = 0 THEN "create_pipeline" ELSE "batch"
            /\ UNCHANGED result
    /\ UNCHANGED <<rayVars, cpuVars, field, call, screen, acquired, deviceLog, queue, image,
                   batch_index,
                   slices, field_texture_data, pass_i, readback>>

\* one item of the parallel iterator over 0..N_TEXTURE_SLICES: any item not
\* yet computed may be the next to finish
TextureSlice ==
    /\ gpc = "batch"
    /\ \E i \in (1..N_TEXTURE_SLICES) \ DOMAIN slices :
          slices' = (i :> SliceTexels(BatchCells(field, batch_index), i)) @@ slices
    /\ UNCHANGED <<rayVars, cpuVars, field, call, gpc, result, screen, acquired, deviceLog,
                   queue, image,
                   batch_index, field_texture_data, pass_i, readback>>

\* the batch's collect once every item is computed, and the next batch
CollectBatch ==
    /\ gpc = "batch"
    /\ DOMAIN slices = 1..N_TEXTURE_SLICES
    /\ field_texture_data' = Append(field_texture_data, CollectSlices(slices))
    /\ slices' = <<>>
    /\ batch_index' = batch_index + 1
    /\ gpc' = IF batch_index + 1 = NBatches(field) THEN "model_textures" ELSE "batch"
    /\ UNCHANGED <<rayVars, cpuVars, field, call, result, screen, acquired, deviceLog, queue,
                   image, pass_i,
                   readback>>

\* model_textures, model_views: one create_texture_with_data and one view per batch
CreateModelTextures ==
    /\ gpc = "model_textures"
    /\ deviceLog' = deviceLog \o
          ConcatUpTo([b \in 1..Len(field_texture_data) |->
                         <<"create_texture: model_texture",
                           "queue.write_texture: model_texture">>],
                     Len(field_texture_data)) \o
          [b \in 1..Len(field_texture_data) |-> "create_view: model_texture"]
    /\ gpc' = "create_pipeline"
    /\ UNCHANGED <<rayVars, cpuVars, field, call, result, screen, acquired, queue, image,
                   batch_index,
                   slices, field_texture_data, pass_i, readback>>

\* the uniform buffers, the layouts and the pipeline
CreatePipeline ==
    DeviceStep("create_pipeline",
               <<"create_buffer_init: render_cfg_buffer",
                 "create_buffer_init: pass_cfg_buffer", "create_bind_group_layout",
                 "create_pipeline_layout", "create_compute_pipeline">>,
               "submit_pass")

\* n_passes = model_views.len()
n_passes == Len(field_texture_data)

\* the push constants with the slab left in [0, 1]: no shift by -0.5
PushConst_UnitSlab(i) ==
    [ bounds_lo |-> << -(ONE \div 2), -(ONE \div 2), TruncDiv(i * ONE, n_passes), 0 >>,
      bounds_hi |-> << ONE \div 2, ONE \div 2, TruncDiv((i + 1) * ONE, n_passes), 0 >>,
      index |-> i,
      n_passes |-> n_passes ]

\* the push constants of pass i (0-based): the z slab of the batch
PushConst(i) ==
    [ bounds_lo |-> << -(ONE \div 2), -(ONE \div 2),
                       TruncDiv(i * ONE, n_passes) - ONE \div 2, 0 >>,
      bounds_hi |-> << ONE \div 2, ONE \div 2,
                       TruncDiv((i + 1) * ONE, n_passes) - ONE \div 2, 0 >>,
      index |-> i,
      n_passes |-> n_passes ]

NoPush == [ bounds_lo |-> <<0, 0, 0, 0>>, bounds_hi |-> <<0, 0, 0, 0>>,
            index |-> 0, n_passes |-> 0 ]

\* a command buffer handed to queue.submit; `view` is the index of the
\* model_view bound at binding 1 of its bind group, None for the copy
Submission(kind, push, view) ==
    [ kind |-> kind, push |-> push, view |-> view, status |-> "submitted", read |-> <<>> ]

\* poll that returns at once, whatever the submission's state
PollNoWait(k) == TRUE

\* poll that waits for the submission before k instead of submission k
PollWaitForPrevious(k) == k = 1 \/ queue[k - 1].status = "done"

\* device.poll(MaintainBase::wait_for(index)): returns once submission k is done
PollWaitFor(k) == queue[k].status = "done"

\* the loop body up to queue.submit: bind group, encoder, compute pass with
\* the push constants and the dispatch, submit
SubmitPass ==
    /\ gpc = "submit_pass"
    /\ IF pass_i < n_passes
       THEN /\ deviceLog' = deviceLog \o <<"create_bind_group", "create_command_encoder">>
            /\ queue' = Append(queue, Submission("pass", PushConst(pass_i), Some(pass_i)))
            /\ gpc' = "wait_pass"
       ELSE /\ gpc' = "submit_copy"
            /\ UNCHANGED <<deviceLog, queue>>
    /\ UNCHANGED <<rayVars, cpuVars, field, call, result, screen, acquired, image,
                   batch_index, slices,
                   field_texture_data, pass_i, readback>>

\* the loop body's poll(wait_for(..)) on the submission just made, and the
\* loop's step
WaitPass ==
    /\ gpc = "wait_pass"
    /\ PollWaitFor(Len(queue))
    /\ pass_i' = pass_i + 1
    /\ gpc' = "submit_pass"
    /\ UNCHANGED <<rayVars, cpuVars, field, call, result, screen, acquired, deviceLog, queue, image,
                   batch_index, slices, field_texture_data, readback>>

\* copy_texture_to_buffer, submitted
SubmitCopy ==
    /\ gpc = "submit_copy"
    /\ deviceLog' = Append(deviceLog, "create_command_encoder")
    /\ queue' = Append(queue, Submission("copy", NoPush, None))
    /\ gpc' = "wait_copy"
    /\ UNCHANGED <<rayVars, cpuVars, field, call, result, screen, acquired, image,
                   batch_index, slices,
                   field_texture_data, pass_i, readback>>

\* poll(wait_for(..)) on the copy, then map_async
WaitCopyAndMap ==
    /\ gpc = "wait_copy"
    /\ PollWaitFor(Len(queue))
    /\ readback' = [readback EXCEPT !.map = "pending"]
    /\ gpc' = "wait_map"
    /\ UNCHANGED <<rayVars, cpuVars, field, call, result, screen, acquired, deviceLog, queue, image,
                   batch_index, slices, field_texture_data, pass_i>>

\* poll(Wait) until the mapping is done, get_mapped_range, and the unpacking
\* of the bytes into the returned pixels
ReadBack ==
    /\ gpc = "wait_map"
    /\ readback.map = "mapped"
    /\ \A k \in 1..Len(queue) : queue[k].status = "done"
    /\ readback' = [readback EXCEPT !.pixels = readback.data]
    /\ gpc' = "exit"
    /\ result' = Outcome("done", "")
    /\ UNCHANGED <<rayVars, cpuVars, field, call, screen, acquired, deviceLog, queue, image,
                   batch_index,
                   slices, field_texture_data, pass_i>>

\* the device starts a submitted command buffer: it reads what the commands
\* read (screen_image) as it is now
DeviceBegin ==
    /\ \E k \in 1..Len(queue) :
          /\ queue[k].status = "submitted"
          /\ queue' = [queue EXCEPT ![k].status = "running", ![k].read = image]
    /\ UNCHANGED <<rayVars, cpuVars, field, call, gpc, result, screen, acquired, deviceLog, image,
                   batch_index, slices, field_texture_data, pass_i, readback>>

\* the device finishes a command buffer: a batch pass writes back the image
\* it read with its own batch folded in, a copy writes the buffer
DeviceEnd ==
    /\ \E k \in 1..Len(queue) :
          /\ queue[k].status = "running"
          /\ queue' = [queue EXCEPT ![k].status = "done"]
          /\ IF queue[k].kind = "pass"
             THEN /\ image' = Append(queue[k].read, queue[k].push.index)
                  /\ UNCHANGED readback
             ELSE /\ readback' = [readback EXCEPT !.data = queue[k].read]
                  /\ UNCHANGED image
    /\ UNCHANGED <<rayVars, cpuVars, field, call, gpc, result, screen, acquired, deviceLog,
                   batch_index,
                   slices, field_texture_data, pass_i>>

\* the device completes the pending mapping of cpu_screen_buffer
DeviceMap ==
    /\ readback.map = "pending"
    /\ readback' = [readback EXCEPT !.map = "mapped"]
    /\ UNCHANGED <<rayVars, cpuVars, field, call, gpc, result, screen, acquired, deviceLog,
                   queue, image,
                   batch_index, slices, field_texture_data, pass_i>>

GpuNext ==
    \/ RequestAdapter
    \/ RequestDevice
    \/ AssertScreen
    \/ CreateShader
    \/ CreateScreenBuffer
    \/ CreateScreenImage
    \/ ToTexturesBegin
    \/ TextureSlice
    \/ CollectBatch
    \/ CreateModelTextures
    \/ CreatePipeline
    \/ SubmitPass
    \/ WaitPass
    \/ SubmitCopy
    \/ WaitCopyAndMap
    \/ ReadBack
    \/ DeviceBegin
    \/ DeviceEnd
    \/ DeviceMap

SpecGpu == GpuInit /\ [][GpuNext]_vars

----------------------------------------------------------------------------
(* f32 functions used by the CPU renderer, on fixed-point numbers. *)

\* f32 quotient a / b (b # 0)
FDiv(a, b) ==
    Let2(a, b, LAMBDA x, y : Sgn(x) * Sgn(y) * ((Abs(x) * ONE) \div Abs(y)))

RECURSIVE NewtonSqrt(_, _)
NewtonSqrt(n, r) ==
    Let((r + n \div r) \div 2,
        LAMBDA next : IF next >= r THEN r ELSE NewtonSqrt(n, next))

\* the integer square root of n >= 0
ISqrt(n) == Let(n, LAMBDA v : IF v < 2 THEN v ELSE NewtonSqrt(v, v))

\* f32::sqrt
FSqrt(a) == ISqrt(a * ONE)

\* e^x for 0 <= x <= 1 by its series
ExpSeries(x) ==
    Let(FMul(x, x), LAMBDA x2 :
    Let(FMul(x2, x), LAMBDA x3 :
        ONE + x + x2 \div 2 + x3 \div 6 + FMul(x3, x) \div 24))

RECURSIVE ExpPos(_)
ExpPos(x) ==
    IF x <= ONE THEN ExpSeries(x)
    ELSE FMul(ExpPos(x \div 2), ExpPos(x - x \div 2))

\* f32::exp: exact at 0, below the resolution from -12 down
FExp(x) ==
    Let(x, LAMBDA v :
        IF v = 0 THEN ONE
        ELSE IF v > 0 THEN ExpPos(Min2(v, 12 * ONE))
        ELSE IF v < -(12 * ONE) THEN 0
        ELSE (ONE * ONE) \div ExpPos(-v))

FPi == TruncDiv(31416 * ONE, 10000)

\* sin x for -pi/2 <= x <= pi/2 by its series
SinSeries(x) ==
    Let2(x, FMul(x, x), LAMBDA v, x2 :
    Let(FMul(x2, v), LAMBDA x3 :
    Let(FMul(x3, x2), LAMBDA x5 :
        v - TruncDiv(x3, 6) + TruncDiv(x5, 120) - TruncDiv(FMul(x5, x2), 5040))))

\* f32::sin
FSin(x) ==
    Let(x % (2 * FPi), LAMBDA r :
        IF 2 * r <= FPi THEN SinSeries(r)
        ELSE IF 2 * r <= 3 * FPi THEN SinSeries(FPi - r)
        ELSE SinSeries(r - 2 * FPi))

\* f32::cos
FCos(x) == FSin(x + FPi \div 2)

\* f32::tan
FTan(x) == Let(x, LAMBDA v : FDiv(FSin(v), FCos(v)))

\* the f32 values that are not numbers, kept apart from every number drawn
FInf == 10000000 * ONE

FNaN == 2 * FInf

\* f32::min and f32::max: a NaN operand is ignored
FMin(a, b) ==
    Let2(a, b, LAMBDA x, y : IF x = FNaN THEN y ELSE IF y = FNaN THEN x ELSE Min2(x, y))

FMax(a, b) ==
    Let2(a, b, LAMBDA x, y : IF x = FNaN THEN y ELSE IF y = FNaN THEN x ELSE Max2(x, y))

\* Vec3 operations
VAdd(a, b) == Let2(a, b, LAMBDA x, y : <<x[1] + y[1], x[2] + y[2], x[3] + y[3]>>)

VSub(a, b) == Let2(a, b, LAMBDA x, y : <<x[1] - y[1], x[2] - y[2], x[3] - y[3]>>)

VScale(k, a) == Let2(k, a, LAMBDA x, y : <<FMul(x, y[1]), FMul(x, y[2]), FMul(x, y[3])>>)

VCross(a, b) ==
    Let2(a, b, LAMBDA x, y :
        << FMul(x[2], y[3]) - FMul(y[2], x[3]),
           FMul(x[3], y[1]) - FMul(y[3], x[1]),
           FMul(x[1], y[2]) - FMul(y[1], x[2]) >>)

VLength(a) ==
    Let(a, LAMBDA x : FSqrt(FMul(x[1], x[1]) + FMul(x[2], x[2]) + FMul(x[3], x[3])))

\* Vec3::normalize: the vector times the reciprocal of its length
VNormalize(a) == Let(a, LAMBDA x : VScale(FDiv(ONE, VLength(x)), x))

VZero == <<0, 0, 0>>

----------------------------------------------------------------------------
(* geometry.rs *)

\* inverse_rd * (bound - ro) on one axis; 1.0 / 0.0 is +inf, and inf * 0.0
\* is NaN
SlabParam(rd, diff) ==
    IF rd # 0 THEN FMul(FDiv(ONE, rd), diff)
    ELSE IF diff > 0 THEN FInf
    ELSE IF diff < 0 THEN -FInf
    ELSE FNaN

\* near taken as the least of the per-axis minima
SlabNear_Min3(lo, hi) ==
    FMin(FMin(FMin(lo[1], hi[1]), FMin(lo[2], hi[2])), FMin(lo[3], hi[3]))

\* near = max3 of the per-axis minima, far = min3 of the per-axis maxima
SlabNear(lo, hi) ==
    FMax(FMax(FMin(lo[1], hi[1]), FMin(lo[2], hi[2])), FMin(lo[3], hi[3]))

SlabFar(lo, hi) ==
    FMin(FMin(FMax(lo[1], hi[1]), FMax(lo[2], hi[2])), FMax(lo[3], hi[3]))

\* intersect_ray_box without the test of its last line: always Some
intersect_ray_box_Always(ro, rd, box_lo, box_hi) ==
    Let2([a \in 1..3 |-> SlabParam(rd[a], box_lo[a] - ro[a])],
         [a \in 1..3 |-> SlabParam(rd[a], box_hi[a] - ro[a])],
         LAMBDA lo, hi : Some(<<SlabNear(lo, hi), SlabFar(lo, hi)>>))

\* intersect_ray_box; a comparison with NaN is false
intersect_ray_box(ro, rd, box_lo, box_hi) ==
    Let2([a \in 1..3 |-> SlabParam(rd[a], box_lo[a] - ro[a])],
         [a \in 1..3 |-> SlabParam(rd[a], box_hi[a] - ro[a])],
         LAMBDA lo, hi :
    Let2(SlabNear(lo, hi), SlabFar(lo, hi), LAMBDA near, far :
        IF near # FNaN /\ far # FNaN /\ near <= far THEN Some(<<near, far>>) ELSE None))

----------------------------------------------------------------------------
(* render_cpu.rs *)

\* spherical_to_cartesian
spherical_to_cartesian(radius, theta, phi) ==
    VScale(radius, << FMul(FSin(phi), FSin(theta)), FCos(phi), FMul(FSin(phi), FCos(theta)) >>)

\* a sample position: a vector, or NaN on every axis
Pos(v) == [ nan |-> FALSE, v |-> v ]

PosNaN == [ nan |-> TRUE, v |-> VZero ]

\* the positions raymarch visits, in order: ro + rd * lerp(near, far, i / (n_steps - 1));
\* with n_steps = 1 the quotient is 0 / 0
MarchPositions(ro, rd, near, far, n_steps) ==
    [ k \in 1..n_steps |->
        IF n_steps = 1 THEN PosNaN
        ELSE Let(FDiv((k - 1) * ONE, (n_steps - 1) * ONE), LAMBDA s :
                 Pos(VAdd(ro, VScale(near + FMul(far - near, s), rd)))) ]

\* the colour statement with the transmittance taken from density_sum as it
\* is after this step's density has been added
StepColor_Late(color, density_sum, sample, step_size) ==
    Let2(FExp(-(density_sum + FMul(step_size, sample.density))),
         ONE - FExp(-FMul(sample.density, step_size)),
         LAMBDA transmittance, alpha :
            VAdd(color, VScale(alpha, VScale(transmittance, sample.color))))

\* the colour statement without the opacity factor
StepColor_NoAlpha(color, density_sum, sample, step_size) ==
    VAdd(color, VScale(FExp(-density_sum), sample.color))

\* the loop body's first statement:
\* color += cell_color * exp(-density_sum) * (1 - exp(-density * step_size))
StepColor(color, density_sum, sample, step_size) ==
    Let2(FExp(-density_sum), ONE - FExp(-FMul(sample.density, step_size)),
         LAMBDA transmittance, alpha :
            VAdd(color, VScale(alpha, VScale(transmittance, sample.color))))

\* the loop body's second statement: density_sum += step_size * density
StepDensitySum(density_sum, sample, step_size) ==
    density_sum + FMul(step_size, sample.density)

\* one turn of raymarch's loop on the pair acc = <<color, density_sum>>
MarchStep(acc, sample, step_size) ==
    << StepColor(acc[1], acc[2], sample, step_size),
       StepDensitySum(acc[2], sample, step_size) >>

RECURSIVE MarchLoop(_, _, _)
MarchLoop(samples, k, step_size) ==
    IF k = 0 THEN << VZero, 0 >>
    ELSE Let(MarchLoop(samples, k - 1, step_size),
             LAMBDA acc : MarchStep(acc, samples[k], step_size))

\* raymarch, given the values get_info returns at the visited positions
raymarch(samples, near, far, n_steps) ==
    IF n_steps = 0 THEN VZero
    ELSE Let(FDiv(far - near, n_steps * ONE),
             LAMBDA step_size : MarchLoop(samples, n_steps, step_size)[1])

Clamp(x, lo, hi) == Min2(Max2(x, lo), hi)

\* color_fn without max and clamp: the remapped colour and the density as
\* eval returned them
ColorFnValue_Raw(value) ==
    CellValueNew([a \in 1..3 |-> FMul(value.color[a], ONE \div 2) + ONE \div 2],
                 value.density)

\* what color_fn makes of the value eval returned
ColorFnValue(value) ==
    CellValueNew([a \in 1..3 |->
                    Clamp(FMul(value.color[a], ONE \div 2) + ONE \div 2, 0, ONE)],
                 Max2(value.density, 0))

\* color_fn of get_color at a position that is a vector
ColorFnAt(f, ro, rd) ==
    Let(VAdd(ro, <<ONE \div 2, ONE \div 2, ONE \div 2>>), LAMBDA p :
    Let(eval_trilinear(f, p, rd), LAMBDA r :
        ColorFnValue(IF IsSome(r) THEN r[1] ELSE CellValueDefault)))

\* color_fn at the NaN position: every comparison of eval_trilinear's margin
\* test is false, NaN as usize is 0, so the stencil at (0, 0, 0) is blended
\* with NaN weights unless size <= 1 rejects it; max(0.0) and clamp then turn
\* the NaN density and colour into 0
ColorFnNaN(f) ==
    IF TrilinearIndexRejects(f, <<0, 0, 0>>)
    THEN ColorFnValue(CellValueDefault)
    ELSE CellValueNew(VZero, 0)

color_fn(f, pos, rd) == IF pos.nan THEN ColorFnNaN(f) ELSE ColorFnAt(f, pos.v, rd)

\* camera_pos of get_color
CameraPos(camera) ==
    VAdd(camera.target_pos,
         spherical_to_cartesian(camera.distance, camera.theta, camera.phi))

\* camera_tangent of get_color
CameraTangent(camera) ==
    VAdd(VScale(-FSin(camera.theta), <<0, 0, ONE>>),
         VScale(FCos(camera.theta), <<ONE, 0, 0>>))

\* ray_direction of get_color
RayDirection(screen_coord, aspect_ratio, camera_direction, camera_tangent, fov_tan) ==
    VNormalize(VAdd(VAdd(camera_direction,
        VScale(FMul(FDiv(screen_coord[1], aspect_ratio), fov_tan), camera_tangent)),
        VScale(FMul(screen_coord[2], fov_tan), VCross(camera_direction, camera_tangent))))

\* the camera ray of get_color: <<ray_origin, ray_direction>>
CameraRay(screen_coord, screen_width, screen_height, camera) ==
    Let2(CameraPos(camera), CameraTangent(camera), LAMBDA camera_pos, camera_tangent :
    Let2(VNormalize(VSub(camera.target_pos, camera_pos)),
         FTan(FMul(ONE \div 2, camera.vfov)),
         LAMBDA camera_direction, fov_tan :
            << camera_pos,
               RayDirection(screen_coord, FDiv(screen_height * ONE, screen_width * ONE),
                            camera_direction, camera_tangent, fov_tan) >>))

\* the box get_color intersects: -0.5 * Vec3::ONE .. 0.5 * Vec3::ONE
BoxLo == << -(ONE \div 2), -(ONE \div 2), -(ONE \div 2) >>

BoxHi == << ONE \div 2, ONE \div 2, ONE \div 2 >>

\* get_color past the intersection test: near is clamped, raymarch is called
MarchTrace(ray, near, far, f, n_steps) ==
    Let(MarchPositions(ray[1], ray[2], near, far, n_steps), LAMBDA positions :
    Let([k \in 1..n_steps |-> color_fn(f, positions[k], ray[2])], LAMBDA samples :
        [ marched |-> TRUE, near |-> near, far |-> far, positions |-> positions,
          color |-> raymarch(samples, near, far, n_steps) ]))

\* what get_color does for one screen coordinate: the ray, the hit, the
\* interval handed to raymarch, the positions sampled and the colour returned
GetColorTrace(screen_coord, screen_width, screen_height, f, cfg) ==
    Let(CameraRay(screen_coord, screen_width, screen_height, cfg.camera), LAMBDA ray :
    Let(intersect_ray_box(ray[1], ray[2], BoxLo, BoxHi), LAMBDA hit :
        IF ~IsSome(hit)
        THEN [ marched |-> FALSE, near |-> 0, far |-> 0, positions |-> <<>>,
               color |-> VZero ]
        ELSE MarchTrace(ray, Max2(hit[1][1], 0), hit[1][2], f,
                        cfg.rm_settings.n_steps)))

\* get_color
get_color(screen_coord, screen_width, screen_height, f, cfg) ==
    GetColorTrace(screen_coord, screen_width, screen_height, f, cfg).color

\* `x as u8` of a fixed-point x: truncated, saturating
AsU8(x) == Clamp(TruncDiv(x, ONE), 0, 255)

\* compact_color
compact_color(color) ==
    Let(color, LAMBDA v : [c \in 1..4 |-> AsU8(Clamp(255 * v[c], 0, 255 * ONE))])

\* the pixel of item i (0-based): i % screen_width taken as the row
PixelXY_Swapped(i, screen_width) == << i \div screen_width, i % screen_width >>

\* the first map of render_image_cpu: |i| (i % screen_width, i / screen_width)
PixelXY(i, screen_width) == << i % screen_width, i \div screen_width >>

\* the second map: the normalized screen coordinate of pixel (x, y)
ScreenCoord(xy, screen_width, screen_height) ==
    << FDiv(2 * xy[1] * ONE + ONE \div 2, (screen_width - 1) * ONE) - ONE,
       FDiv(2 * xy[2] * ONE + ONE \div 2, (screen_height - 1) * ONE) - ONE >>

\* the third and fourth maps: get_color(..).extend(1.0), compact_color
PixelBytes(i, screen_width, screen_height, f, cfg) ==
    Let(get_color(ScreenCoord(PixelXY(i, screen_width), screen_width, screen_height),
                  screen_width, screen_height, f, cfg),
        LAMBDA c : compact_color(<<c[1], c[2], c[3], ONE>>))

----------------------------------------------------------------------------
(* SpecField: one sampling call on a drawn field at a drawn position. *)

\* the positions drawn on each axis: outside the cube on both sides, on its
\* faces, on the EPS margin and inside
PosAxis ==
    { -(ONE \div 4), 0, ONE \div EPS_INV, ONE \div 4, ONE \div 2, (3 * ONE) \div 4,
      ((EPS_INV - 1) * ONE) \div EPS_INV, ONE, ONE + ONE \div 4 }

Positions == { <<x, y, z>> : x \in PosAxis, y \in PosAxis, z \in PosAxis }

IndexAxis == 0..(MaxSize + 1)

\* the size of a field whose grid lines pass through drawn positions: 0.25,
\* 0.5 and 0.75 are whole multiples of 1 / AlignedSize
AlignedSize == 4

Indices == { <<x, y, z>> : x \in IndexAxis, y \in IndexAxis, z \in IndexAxis }

\* the direction the sampling calls are made with: +z
SampleDir == <<0, 0, ONE>>

\* what an out-of-bounds get_unchecked may read: the build decides
GarbageCells == { MakeCell(2, 7), MakeCell(3, 11) }

\* the record of a call that returned the Option `r`
Returned(op, pos, index, flats, r) ==
    [ op |-> op, pos |-> pos, index |-> index, flats |-> flats,
      outcome |-> IF IsSome(r) THEN "some" ELSE "none",
      value |-> IF IsSome(r) THEN r[1] ELSE CellValueDefault ]

FieldInit ==
    /\ field \in FieldInputs(0..MaxSize) \cup { MakeField(AlignedSize, Cube(AlignedSize), 1) }
    /\ call = NoCall
    /\ GpuIdle
    /\ CpuIdle
    /\ RayIdle

\* field.get(index), evaluated as eval_by_index does
CallGet ==
    \E index \in Indices :
        /\ call.op = "none"
        /\ call' = Returned("get", <<0, 0, 0>>, index,
                            <<index_of(field.size, index)>>,
                            eval_by_index(field, index, SampleDir))
        /\ UNCHANGED <<field, gpuVars, cpuVars, rayVars>>

\* field.eval(pos, dir, Filtering::Nearest)
CallEvalNear ==
    \E pos \in Positions :
        /\ call.op = "none"
        /\ call' = Returned("eval_near", pos, NearIndex(field, pos),
                            <<index_of(field.size, NearIndex(field, pos))>>,
                            eval_near(field, pos, SampleDir))
        /\ UNCHANGED <<field, gpuVars, cpuVars, rayVars>>

\* field.eval(pos, dir, Filtering::Trilinear) returning None at one of its tests
CallEvalTrilinearRejected ==
    \E pos \in Positions :
        /\ call.op = "none"
        /\ TrilinearRejects(field, pos)
        /\ call' = Returned("eval_trilinear", pos, LoIndex(field, pos), <<>>, None)
        /\ UNCHANGED <<field, gpuVars, cpuVars, rayVars>>

\* field.eval(pos, dir, Filtering::Trilinear) reading its eight cells with
\* get_unchecked: a read inside the sequence yields the stored cell, a read
\* outside it is undefined behaviour (any cell value, or a fault)
CallEvalTrilinearGather ==
    \E pos \in Positions :
        /\ call.op = "none"
        /\ ~TrilinearRejects(field, pos)
        /\ LET flats == StencilFlats(field, pos)
               outside == { k \in 1..8 : flats[k] >= Len(field.cells) }
           IN  \/ \E garbage \in [outside -> GarbageCells] :
                      call' = Returned("eval_trilinear", pos, LoIndex(field, pos), flats,
                                       TrilinearBlend(field, pos, SampleDir,
                                           [k \in 1..8 |->
                                               IF k \in outside THEN garbage[k]
                                               ELSE field.cells[flats[k] + 1]]))
               \/ /\ \E k \in 1..8 : flats[k] >= Len(field.cells)
                  /\ call' = [ op |-> "eval_trilinear", pos |-> pos,
                               index |-> LoIndex(field, pos), flats |-> flats,
                               outcome |-> "fault", value |-> CellValueDefault ]
        /\ UNCHANGED <<field, gpuVars, cpuVars, rayVars>>

FieldNext ==
    \/ CallGet
    \/ CallEvalNear
    \/ CallEvalTrilinearRejected
    \/ CallEvalTrilinearGather

SpecField == FieldInit /\ [][FieldNext]_vars

----------------------------------------------------------------------------
(* SpecCpu: main's CPU path.  The configuration and the field are read, the
   image is rendered by the worker pool (render_image_cpu), then once more
   by the single-threaded variant on the same inputs. *)

\* the largest n_steps a configuration is drawn with
MaxSteps == 3

\* Camera::default
CameraDefault ==
    [ distance |-> (13 * ONE) \div 10, theta |-> 0, phi |-> FPi \div 3,
      vfov |-> FPi \div 4, target_pos |-> <<0, 0, 0>> ]

\* Camera::default, and a camera at VALID_THETAS[1] that looks at the low
\* corner of the box through a narrower field of view
CameraInputs ==
    { CameraDefault,
      [ CameraDefault EXCEPT !.theta = (9 * ONE) \div 10, !.vfov = FPi \div 8,
                             !.target_pos = << -(ONE \div 4), -(ONE \div 4), -(ONE \div 4) >> ] }

\* what the configuration file can hold: n_steps is any usize
CfgInputs ==
    { [ camera |-> camera, rm_settings |-> [ n_steps |-> n ] ]
      : camera \in CameraInputs, n \in 0..MaxSteps }

CpuFieldInputs == { MakeField(n, Cube(n), n % 2) : n \in 2..MaxSize }

CpuScreenInputs == { <<2, 2>>, <<3, 2>>, <<2, 3>> }

NPixels == cpu_screen[1] * cpu_screen[2]

\* a slot of `image`: how often it was written, the item written, its bytes
EmptySlot == [ writes |-> 0, item |-> -1, bytes |-> <<>> ]

\* the position collect_into_vec writes item i to: the number of items
\* finished before it
CollectSlot_Arrival(i) == Cardinality(computed)

\* the position collect_into_vec writes item i of the indexed iterator to
CollectSlot(i) == i

\* the calls of raymarch one pixel makes
MarchesOf(variant, i) ==
    LET t == GetColorTrace(ScreenCoord(PixelXY(i, cpu_screen[1]), cpu_screen[1], cpu_screen[2]),
                           cpu_screen[1], cpu_screen[2], field, render_configuration)
    IN  IF t.marched
        THEN { [ variant |-> variant, item |-> i,
                 n_steps |-> render_configuration.rm_settings.n_steps ] }
        ELSE {}

RECURSIVE FlattenUpTo(_, _)
FlattenUpTo(slots, k) ==
    IF k = 0 THEN <<>> ELSE FlattenUpTo(slots, k - 1) \o slots[k].bytes

\* bytemuck::allocation::cast_vec: the [u8; 4] items as one run of bytes
cast_vec(slots) == FlattenUpTo(slots, Len(slots))

CpuInit ==
    /\ field \in CpuFieldInputs
    /\ call = NoCall
    /\ GpuIdle
    /\ RayIdle
    /\ render_configuration \in CfgInputs
    /\ cpc = "config"
    /\ cpu_screen \in CpuScreenInputs
    /\ computed = {}
    /\ reordered = FALSE
    /\ cpu_image = <<>>
    /\ cpu_bytes = <<>>
    /\ single_image = <<>>
    /\ marches = {}

\* main: toml::from_str gives the configuration; nothing looks at n_steps
ReadConfiguration ==
    /\ cpc = "config"
    /\ cpc' = "render"
    /\ UNCHANGED <<rayVars, field, fieldVars, gpuVars, render_configuration, cpu_screen, computed,
                   reordered, cpu_image, cpu_bytes, single_image, marches>>

\* render_image_cpu: the target vector and the parallel iterator are set up
RenderImageBegin ==
    /\ cpc = "render"
    /\ cpu_image' = [s \in 1..NPixels |-> EmptySlot]
    /\ cpc' = "workers"
    /\ UNCHANGED <<rayVars, field, fieldVars, gpuVars, render_configuration, cpu_screen, computed,
                   reordered, cpu_bytes, single_image, marches>>

\* a worker finishes item i, whichever the pool ran to its end next: the four
\* maps, and the write of collect_into_vec
WorkerPixel ==
    /\ cpc = "workers"
    /\ \E i \in (0..(NPixels - 1)) \ computed :
          LET s == CollectSlot(i) + 1
          IN  /\ cpu_image' = [cpu_image EXCEPT ![s] =
                    [ writes |-> @.writes + 1, item |-> i,
                      bytes |-> PixelBytes(i, cpu_screen[1], cpu_screen[2], field,
                                           render_configuration) ]]
              /\ computed' = computed \cup {i}
              /\ reordered' = (reordered \/ \E j \in 0..(i - 1) : j \notin computed)
              /\ marches' = marches \cup MarchesOf("multi", i)
    /\ UNCHANGED <<rayVars, field, fieldVars, gpuVars, render_configuration, cpc, cpu_screen,
                   cpu_bytes, single_image>>

\* every item is finished: cast_vec, and render_image_cpu returns
RenderImageEnd ==
    /\ cpc = "workers"
    /\ computed = 0..(NPixels - 1)
    /\ cpu_bytes' = cast_vec(cpu_image)
    /\ cpc' = "single"
    /\ UNCHANGED <<rayVars, field, fieldVars, gpuVars, render_configuration, cpu_screen, computed,
                   reordered, cpu_image, single_image, marches>>

\* the single-threaded variant computes the next pixel, in index order
SinglePixel ==
    /\ cpc = "single"
    /\ Len(single_image) < 4 * NPixels
    /\ LET i == Len(single_image) \div 4
       IN  /\ single_image' = single_image \o
                 PixelBytes(i, cpu_screen[1], cpu_screen[2], field, render_configuration)
           /\ marches' = marches \cup MarchesOf("single", i)
    /\ UNCHANGED <<rayVars, field, fieldVars, gpuVars, render_configuration, cpc, cpu_screen,
                   computed, reordered, cpu_image, cpu_bytes>>

\* the single-threaded variant returns
SingleEnd ==
    /\ cpc = "single"
    /\ Len(single_image) = 4 * NPixels
    /\ cpc' = "exit"
    /\ UNCHANGED <<rayVars, field, fieldVars, gpuVars, render_configuration, cpu_screen, computed,
                   reordered, cpu_image, cpu_bytes, single_image, marches>>

CpuNext ==
    \/ ReadConfiguration
    \/ RenderImageBegin
    \/ WorkerPixel
    \/ RenderImageEnd
    \/ SinglePixel
    \/ SingleEnd

SpecCpu == CpuInit /\ [][CpuNext]_vars

----------------------------------------------------------------------------
(* SpecRay: get_color for one pixel, statement by statement.  The camera ray
   is built and intersected with the box; on a hit raymarch runs its loop,
   one call of the sample function and one update of density_sum at a time. *)

\* a camera that looks away from the box: the box lies on the camera's
\* line of sight, behind it
CameraBehind ==
    [ CameraDefault EXCEPT !.vfov = FPi \div 8,
                           !.target_pos = << 0, -((13 * ONE) \div 10), -((225 * ONE) \div 100) >> ]

\* a camera at VALID_THETAS[4] below the box, looking up through it
CameraBelow ==
    [ CameraDefault EXCEPT !.theta = (36 * ONE) \div 10, !.phi = (2 * FPi) \div 3,
                           !.vfov = FPi \div 8 ]

RayCfgInputs ==
    { [ camera |-> camera, rm_settings |-> [ n_steps |-> n ] ]
      : camera \in CameraInputs \cup { CameraBehind, CameraBelow }, n \in 0..MaxSteps }

\* the sample functions raymarch is run with: get_color's color_fn, and a
\* function that returns density zero with a colour of its own choosing
GetInfoInputs == { "color_fn", "zero_density" }

\* the value the zero-density function returns at its k-th call: finite
\* colours inside and outside [0, 1]
ZeroDensityInfo(k) == CellValueNew(<< k * ONE, ONE \div 2, -(3 * ONE) >>, 0)

\* whether field.eval(ro + 0.5, rd, Trilinear) is None at the position
EvalIsNone(f, pos, rd) ==
    IF pos.nan THEN TrilinearIndexRejects(f, <<0, 0, 0>>)
    ELSE TrilinearRejects(f, VAdd(pos.v, <<ONE \div 2, ONE \div 2, ONE \div 2>>))

\* get_info(pos, rd) at the k-th turn of the loop
GetInfo(mode, k, pos, rd) ==
    IF mode = "color_fn" THEN color_fn(field, pos, rd) ELSE ZeroDensityInfo(k)

\* (far - near) / n_steps as f32; the quotient by 0.0 is an infinity or NaN
StepSize(near, far, n_steps) ==
    IF n_steps # 0 THEN FDiv(far - near, n_steps * ONE)
    ELSE IF far > near THEN FInf
    ELSE IF far < near THEN -FInf
    ELSE FNaN

RayInit ==
    /\ field \in CpuFieldInputs
    /\ call = NoCall
    /\ GpuIdle
    /\ render_configuration \in RayCfgInputs
    /\ cpc = "idle"
    /\ cpu_screen \in CpuScreenInputs
    /\ computed = {}
    /\ reordered = FALSE
    /\ cpu_image = <<>>
    /\ cpu_bytes = <<>>
    /\ single_image = <<>>
    /\ marches = {}
    /\ ray_pc = "get_color"
    /\ pixel_ray \in
         { [ NoRay EXCEPT !.get_info = mode, !.item = i,
                          !.coord = ScreenCoord(PixelXY(i, cpu_screen[1]),
                                                cpu_screen[1], cpu_screen[2]) ]
           : mode \in GetInfoInputs, i \in 0..(NPixels - 1) }
    /\ march = NoMarch
    /\ box_call = NoBoxCall

\* get_color up to ray_origin: the camera ray of the pixel
GetColorRay ==
    /\ ray_pc = "get_color"
    /\ pixel_ray' =
         Let(CameraRay(pixel_ray.coord, cpu_screen[1], cpu_screen[2],
                       render_configuration.camera),
             LAMBDA r : [ pixel_ray EXCEPT !.ro = r[1], !.rd = r[2] ])
    /\ ray_pc' = "intersect"
    /\ UNCHANGED <<field, fieldVars, gpuVars, cpuVars, march, box_call>>

\* the call of geometry::intersect_ray_box with the box (-0.5, 0.5)^3
GetColorIntersect ==
    /\ ray_pc = "intersect"
    /\ pixel_ray' =
         [ pixel_ray EXCEPT !.hit = intersect_ray_box(pixel_ray.ro, pixel_ray.rd, BoxLo, BoxHi) ]
    /\ ray_pc' = "let_else"
    /\ UNCHANGED <<field, fieldVars, gpuVars, cpuVars, march, box_call>>

\* let Some(..) = .. else { return Vec3::ZERO }
GetColorMiss ==
    /\ ray_pc = "let_else"
    /\ ~IsSome(pixel_ray.hit)
    /\ pixel_ray' = [ pixel_ray EXCEPT !.color = Some(VZero) ]
    /\ ray_pc' = "returned"
    /\ UNCHANGED <<field, fieldVars, gpuVars, cpuVars, march, box_call>>

\* near = near.max(0.0), and the call of raymarch up to its loop
GetColorRaymarch ==
    /\ ray_pc = "let_else"
    /\ IsSome(pixel_ray.hit)
    /\ pixel_ray' = [ pixel_ray EXCEPT !.near = Max2(pixel_ray.hit[1][1], 0),
                                       !.far = pixel_ray.hit[1][2] ]
    /\ march' = [ entered |-> TRUE,
                  n_steps |-> render_configuration.rm_settings.n_steps,
                  step_size |-> StepSize(pixel_ray'.near, pixel_ray'.far,
                                         render_configuration.rm_settings.n_steps),
                  color |-> VZero, density_sum |-> 0, calls |-> <<>> ]
    /\ ray_pc' = "loop"
    /\ UNCHANGED <<field, fieldVars, gpuVars, cpuVars, box_call>>

\* one turn of the loop up to the colour statement: the next position is
\* taken from the iterator, get_info is called, colour is accumulated
MarchSample ==
    /\ ray_pc = "loop"
    /\ Len(march.calls) < march.n_steps
    /\ march' =
         Let2(Len(march.calls) + 1,
              MarchPositions(pixel_ray.ro, pixel_ray.rd, pixel_ray.near, pixel_ray.far,
                             march.n_steps),
              LAMBDA k, positions :
         Let(GetInfo(pixel_ray.get_info, k, positions[k], pixel_ray.rd), LAMBDA value :
         Let(StepColor(march.color, march.density_sum, value, march.step_size),
             LAMBDA color :
                [ march EXCEPT
                    !.color = color,
                    !.calls = Append(@,
                        [ pos |-> positions[k],
                          none |-> /\ pixel_ray.get_info = "color_fn"
                                   /\ EvalIsNone(field, positions[k], pixel_ray.rd),
                          value |-> value,
                          color_before |-> march.color,
                          density_sum_before |-> march.density_sum,
                          color_after |-> color,
                          density_sum_after |-> <<>> ]) ])))
    /\ ray_pc' = "density_sum"
    /\ UNCHANGED <<field, fieldVars, gpuVars, cpuVars, pixel_ray, box_call>>

\* the last statement of the turn: density_sum += step_size * density
MarchDensitySum ==
    /\ ray_pc = "density_sum"
    /\ march' =
         Let2(Len(march.calls),
              StepDensitySum(march.density_sum, march.calls[Len(march.calls)].value,
                             march.step_size),
              LAMBDA k, d :
                [ march EXCEPT !.density_sum = d,
                               !.calls[k].density_sum_after = Some(d) ])
    /\ ray_pc' = "loop"
    /\ UNCHANGED <<field, fieldVars, gpuVars, cpuVars, pixel_ray, box_call>>

\* the iterator is exhausted: raymarch returns color, get_color returns it
MarchReturn ==
    /\ ray_pc = "loop"
    /\ Len(march.calls) = march.n_steps
    /\ pixel_ray' = [ pixel_ray EXCEPT !.color = Some(march.color) ]
    /\ ray_pc' = "returned"
    /\ UNCHANGED <<field, fieldVars, gpuVars, cpuVars, march, box_call>>

RayNext ==
    \/ GetColorRay
    \/ GetColorIntersect
    \/ GetColorMiss
    \/ GetColorRaymarch
    \/ MarchSample
    \/ MarchDensitySum
    \/ MarchReturn

SpecRay == RayInit /\ [][RayNext]_vars

----------------------------------------------------------------------------
(* SpecBox: one call of intersect_ray_box on a drawn ray and a drawn box. *)

\* ray origins: outside the box on both sides, on its faces, inside
RoAxis == { -(2 * ONE), -(ONE \div 2), 0, ONE \div 4, 2 * ONE }

RoInputs == { <<x, y, z>> : x \in RoAxis, y \in RoAxis, z \in RoAxis }

\* ray directions: along an axis both ways, in a plane, oblique, and zero
RdInputs ==
    { <<0, 0, ONE>>, <<0, 0, -ONE>>, <<ONE, 0, 0>>, <<0, ONE, -ONE>>, <<ONE, ONE, ONE>>,
      << -ONE, ONE \div 2, ONE \div 4 >>, << ONE \div 2, -ONE, 2 * ONE >>, <<0, 0, 0>> }

\* the box get_color uses, and Aabb::default
BoxInputs == { <<BoxLo, BoxHi>>, << <<0, 0, 0>>, <<ONE, ONE, ONE>> >> }

BoxInit ==
    /\ field = MakeField(0, 0, 0)
    /\ call = NoCall
    /\ GpuIdle
    /\ CpuIdle
    /\ ray_pc = "idle"
    /\ pixel_ray = NoRay
    /\ march = NoMarch
    /\ box_call \in { [ NoBoxCall EXCEPT !.ro = ro, !.rd = rd, !.box_lo = b[1], !.box_hi = b[2] ]
                      : ro \in RoInputs, rd \in RdInputs, b \in BoxInputs }

\* intersect_ray_box(ro, rd, box_lo, box_hi)
CallIntersectRayBox ==
    /\ ~box_call.called
    /\ box_call' =
         [ box_call EXCEPT
             !.called = TRUE,
             !.result = intersect_ray_box(box_call.ro, box_call.rd,
                                          box_call.box_lo, box_call.box_hi) ]
    /\ UNCHANGED <<field, fieldVars, gpuVars, cpuVars, ray_pc, pixel_ray, march>>

BoxNext == CallIntersectRayBox

SpecBox == BoxInit /\ [][BoxNext]_vars

----------------------------------------------------------------------------
(* Claims about the field and its sampling (SpecField). *)

\* the coordinates with 0 <= x, y, z < n
InRange(n) == { <<x, y, z>> : x \in 0..(n - 1), y \in 0..(n - 1), z \in 0..(n - 1) }

\* whether the call handed an index outside the backing sequence to a read
AccessOutside == \E k \in 1..Len(call.flats) : call.flats[k] >= Len(field.cells)

\* C5: on a field whose cell sequence is shorter than size^3, a nearest or
\* trilinear sampling access whose flat index falls outside the sequence is a
\* hard failure (a panic or a fault), never a None result and never a value
\* obtained by an unchecked read.
C5_UndersizedAccessIsFatal ==
    ( /\ Len(field.cells) < Cube(field.size)
      /\ call.op \in {"eval_near", "eval_trilinear"}
      /\ AccessOutside )
    => call.outcome \in {"panic", "fault"}

\* C8: eval_near returns None whenever the truncated index is >= size on some
\* axis or the position is negative on some axis, and a returned value is the
\* cell at exactly (x, y, z) with all three indices in [0, size).
C8_NearNoneOutOfBounds ==
    ( WellFormed(field) /\ call.op = "eval_near" )
    => /\ ( \E a \in 1..3 : call.index[a] >= field.size \/ call.pos[a] < 0 )
          => call.outcome = "none"
       /\ call.outcome = "some"
          => /\ call.index \in InRange(field.size)
             /\ call.value =
                    CellEval(field.cells[index_of(field.size, call.index) + 1], SampleDir)

\* C9: on a field with cells.length = size^3, index_of maps the in-range
\* coordinates one-to-one onto 0 .. size^3 - 1, and get returns Some (the
\* cell stored at that flat index) for every in-range coordinate.
C9_IndexOfBijection ==
    WellFormed(field)
    => LET n == field.size
       IN  /\ \A c \in InRange(n) : index_of(n, c) \in 0..(Cube(n) - 1)
           /\ \A c1, c2 \in InRange(n) :
                  c1 # c2 => index_of(n, c1) # index_of(n, c2)
           /\ \A flat \in 0..(Cube(n) - 1) : \E c \in InRange(n) : index_of(n, c) = flat
           /\ \A c \in InRange(n) : IsSome(get(field, c))
           /\ ( call.op = "get" /\ call.index \in InRange(n) )
              => /\ call.outcome = "some"
                 /\ call.flats[1] =
                        call.index[1] + n * call.index[2] + n * n * call.index[3]
                 /\ call.value = CellEval(field.cells[call.flats[1] + 1], SampleDir)

\* a get of the last cell of a full field of size 3 that returned Some
C9_Witness ==
    /\ WellFormed(field)
    /\ field.size = 3
    /\ call.op = "get"
    /\ call.index = <<2, 2, 2>>
    /\ call.flats = <<26>>
    /\ call.outcome = "some"

\* C17: on a field with cells.length = size^3, every position eval_trilinear
\* does not reject has a floor index with each coordinate in [0, size - 2]; the
\* eight stencil coordinates are then < size on every axis, the eight flat
\* indices are < size^3, and the unchecked reads stay inside the sequence.
C17_StencilInBounds ==
    ( WellFormed(field) /\ call.op = "eval_trilinear" /\ call.outcome # "none" )
    => /\ \A a \in 1..3 : call.index[a] \in 0..(field.size - 2)
       /\ \A k \in 1..8 :
             /\ \A a \in 1..3 : StencilIndices(call.index)[k][a] < field.size
             /\ call.flats[k] = index_of(field.size, StencilIndices(call.index)[k])
             /\ call.flats[k] < Cube(field.size)
             /\ call.flats[k] < Len(field.cells)
       /\ call.outcome = "some"

\* a gather whose stencil touches the last cell of the largest field
C17_Witness ==
    /\ WellFormed(field)
    /\ field.size = MaxSize
    /\ call.op = "eval_trilinear"
    /\ call.outcome = "some"
    /\ call.index = <<field.size - 2, field.size - 2, field.size - 2>>
    /\ call.flats[8] = Len(field.cells) - 1

\* C14: trilinear sampling at a position whose scaled coordinate has the
\* fractional part (0, 0, 0) returns exactly the value of the stored cell at
\* the floor index: the eight weights are 1 for that cell and 0 for the other
\* seven; and at every position each stencil cell is paired with the weight
\* of its own corner, the cell offset by +1 on an axis getting the fraction
\* of that axis and the cell not offset getting 1 - fraction.
C14_GridAlignedIsStoredCell ==
    ( WellFormed(field) /\ call.op = "eval_trilinear" /\ call.outcome = "some" )
    => LET coeffs == FractGl(field, call.pos)
           w == TrilerpWeights(coeffs)
           ix == StencilIndices(call.index)
       IN  /\ \A k \in 1..8 : \A a \in 1..3 :
                 w[k][a] = IF ix[k][a] = call.index[a] + 1 THEN coeffs[a] ELSE ONE - coeffs[a]
           /\ coeffs = <<0, 0, 0>> =>
                 /\ w[1] = <<ONE, ONE, ONE>>
                 /\ \A k \in 2..8 : \E a \in 1..3 : w[k][a] = 0
                 /\ call.value = CellEval(field.cells[call.flats[1] + 1], SampleDir)
                 /\ call.flats[1] = index_of(field.size, call.index)
                 /\ Some(call.value) = eval_by_index(field, call.index, SampleDir)

\* a grid-aligned sample away from the first cell, whose seven neighbours
\* all hold values other than the one returned
C14_Witness ==
    /\ WellFormed(field)
    /\ call.op = "eval_trilinear"
    /\ call.outcome = "some"
    /\ FractGl(field, call.pos) = <<0, 0, 0>>
    /\ call.index = <<1, 2, 1>>
    /\ call.value = CellEval(field.cells[call.flats[1] + 1], SampleDir)
    /\ \A k \in 2..8 : CellEval(field.cells[call.flats[k] + 1], SampleDir) # call.value

----------------------------------------------------------------------------
(* Claims about the GPU path (SpecGpu). *)

\* the 0-based indices 0 .. n - 1 as a sequence
Iota(n) == [k \in 1..n |-> k - 1]

\* the positions of the batch passes in the queue
PassesSubmitted == { k \in 1..Len(queue) : queue[k].kind = "pass" }

\* C1: the batch passes are submitted in the order 0, 1, ..., n_passes - 1;
\* pass i + 1 is submitted only once pass i is done, so no two passes are in
\* flight at once; and each pass reads the image as the passes before it
\* left it (passes 0 .. i - 1 folded in, in that order).
C1_PassesSequential ==
    /\ \A k \in PassesSubmitted :
          /\ k <= NBatches(field)
          /\ queue[k].push.index = k - 1
          /\ k > 1 => queue[k - 1].kind = "pass" /\ queue[k - 1].status = "done"
          /\ queue[k].status \in {"running", "done"} => queue[k].read = Iota(k - 1)
    /\ Cardinality({ k \in PassesSubmitted : queue[k].status # "done" }) <= 1
    /\ image = Iota(Cardinality({ k \in PassesSubmitted : queue[k].status = "done" }))

\* the second pass of a two-batch field running on the image pass 0 left
C1_Witness ==
    /\ NBatches(field) >= 2
    /\ Len(queue) = 2
    /\ queue[2].kind = "pass"
    /\ queue[2].status = "running"
    /\ queue[2].read = <<0>>
    /\ queue[1].status = "done"

\* C4: when the field size is not divisible by the batch size, render_gpu
\* fails before any device work: at the failure no device object has been
\* created and nothing has been written to or submitted on the queue.
C4_BatchAssertBeforeDeviceWork ==
    ( field.size % BATCH_SIZE # 0 /\ result.kind = "panic"
      /\ result.msg = "radiance field size should be divisible by BATCH_SIZE" )
    => deviceLog = <<>> /\ queue = <<>>

\* C7: when no adapter can be acquired, and when the device request fails,
\* GpuContext::new returns Err (it does not panic), and it asks only once.
C7_AcquisitionFailureIsErr ==
    ( gpc = "exit" /\ (acquired.adapter = "none" \/ acquired.device = "err") )
    => /\ result.kind = "err"
       /\ acquired.adapter_requests <= 1
       /\ acquired.device_requests <= 1

\* radiance_field_to_textures has returned
ToTexturesReturned ==
    \/ gpc \in { "model_textures", "create_pipeline", "submit_pass", "wait_pass",
                 "submit_copy", "wait_copy", "wait_map" }
    \/ gpc = "exit" /\ result.kind = "done"

\* C10: radiance_field_to_textures returns size / BATCH_SIZE batches; batch b
\* has 9 * size^2 * BATCH_SIZE texels and its texel at i * volume + j is
\* (sh_r[i], sh_g[i], sh_b[i], density) of the cell at flat index
\* b * volume + j; every cell of the field is in exactly one batch; all this
\* whatever the order in which the parallel items were computed.
C10_TextureLayout ==
    ToTexturesReturned
    => LET size == field.size
           volume == size * size * BATCH_SIZE
       IN  /\ Len(field_texture_data) * BATCH_SIZE = size
           /\ \A b \in 0..(Len(field_texture_data) - 1) :
                 /\ Len(field_texture_data[b + 1]) = 9 * volume
                 /\ \A i \in 0..8 : \A j \in 0..(volume - 1) :
                       LET cell == field.cells[b * volume + j + 1]
                       IN  field_texture_data[b + 1][i * volume + j + 1] =
                              << cell.sh_r[i + 1], cell.sh_g[i + 1], cell.sh_b[i + 1],
                                 cell.density >>
           /\ \A k \in 1..Len(field.cells) :
                 Cardinality({ b \in 1..Len(field_texture_data) :
                     \E p \in 1..volume :
                        field_texture_data[b][p] = Texel(field.cells[k], 1) }) = 1

\* a field of two batches whose textures have been built
C10_Witness ==
    /\ ToTexturesReturned
    /\ field.size = 2 * BATCH_SIZE
    /\ Len(field_texture_data) = 2
    /\ Len(field_texture_data[2]) = 9 * field.size * field.size * BATCH_SIZE

\* the positions of the copy in the queue
CopiesSubmitted == { k \in 1..Len(queue) : queue[k].kind = "copy" }

\* C11: the copy of the image into cpu_screen_buffer is submitted only when
\* every batch pass has been submitted and is done; the mapping is asked for
\* only when the copy is done; and the bytes are unpacked only when the copy
\* is done and the buffer is mapped, with no submission pending, so the
\* pixels returned are the image with every batch folded in.
C11_ReadbackAfterCopy ==
    /\ \A k \in CopiesSubmitted :
          /\ k = NBatches(field) + 1
          /\ \A j \in 1..(k - 1) : queue[j].kind = "pass" /\ queue[j].status = "done"
          /\ queue[k].status \in {"running", "done"} => queue[k].read = Iota(NBatches(field))
    /\ readback.map # "unmapped" =>
          \E k \in CopiesSubmitted : queue[k].status = "done"
    /\ readback.pixels # <<>> \/ result.kind = "done" =>
          /\ readback.map = "mapped"
          /\ CopiesSubmitted # {}
          /\ \A k \in 1..Len(queue) : queue[k].status = "done"
          /\ readback.pixels = Iota(NBatches(field))

\* render_gpu has returned the pixels of a field of two or more batches
C11_Witness ==
    /\ result.kind = "done"
    /\ NBatches(field) >= 2
    /\ Len(queue) = NBatches(field) + 1
    /\ readback.pixels = Iota(NBatches(field))

\* the z coordinate of cell plane z of a field of `size` planes, in the box
\* (-0.5, 0.5)^3 the field fills: z / size - 0.5
PlaneZ(z, size) == TruncDiv(z * ONE, size) - ONE \div 2

\* C22: the push constants of the n_passes batch passes carry index = i and
\* n_passes = size / BATCH_SIZE; their z slabs [i / n_passes - 0.5,
\* (i + 1) / n_passes - 0.5] tile the box's z range without gap or overlap
\* (slab 0 starts at -0.5, slab i ends where slab i + 1 starts, the last ends
\* at 0.5); and the slab of pass i is the normalized z extent of the cell
\* planes z in [BATCH_SIZE * i, BATCH_SIZE * (i + 1)), the planes the texture
\* bound in pass i holds.
C22_SlabsTileBox ==
    \A k \in PassesSubmitted :
       LET i == k - 1
           push == queue[k].push
           n == field.size \div BATCH_SIZE
           volume == field.size * field.size * BATCH_SIZE
       IN  /\ push.index = i
           /\ push.n_passes = n
           /\ i < n
           /\ push.bounds_lo[1] = BoxLo[1] /\ push.bounds_lo[2] = BoxLo[2]
           /\ push.bounds_hi[1] = BoxHi[1] /\ push.bounds_hi[2] = BoxHi[2]
           /\ push.bounds_lo[3] < push.bounds_hi[3]
           /\ i = 0 => push.bounds_lo[3] = BoxLo[3]
           /\ i > 0 => push.bounds_lo[3] = queue[k - 1].push.bounds_hi[3]
           /\ i = n - 1 => /\ push.bounds_hi[3] = ONE - ONE \div 2
                           /\ ONE % 2 = 0 => push.bounds_hi[3] = BoxHi[3]
           /\ push.bounds_lo[3] = PlaneZ(BATCH_SIZE * i, field.size)
           /\ push.bounds_hi[3] = PlaneZ(BATCH_SIZE * (i + 1), field.size)
           /\ queue[k].view = Some(i)
           /\ Len(field_texture_data[i + 1]) = N_TEXTURE_SLICES * volume
           /\ \A x \in 0..(field.size - 1), y \in 0..(field.size - 1),
                 z \in 0..(field.size - 1) :
                 ( \E j \in 1..volume :
                      /\ j = index_of(field.size, <<x, y, z>>) - i * volume + 1
                      /\ field_texture_data[i + 1][j] =
                            Texel(field.cells[index_of(field.size, <<x, y, z>>) + 1], 1) )
                 <=> ( BATCH_SIZE * i <= z /\ z < BATCH_SIZE * (i + 1) )

\* the last of three passes has been submitted with the middle slab behind it
C22_Witness ==
    /\ NBatches(field) = 3
    /\ Len(queue) = 3
    /\ queue[3].kind = "pass"
    /\ queue[3].push.index = 2
    /\ queue[3].push.bounds_lo[3] = queue[2].push.bounds_hi[3]
    /\ queue[2].push.bounds_lo[3] = queue[1].push.bounds_hi[3]
    /\ queue[1].push.bounds_lo[3] = BoxLo[3]
    /\ queue[3].push.bounds_hi[3] = BoxHi[3]
    /\ queue[2].push.bounds_lo[3] < 0 /\ queue[2].push.bounds_hi[3] > 0

----------------------------------------------------------------------------
(* Claims (SpecCpu) *)

\* the packed colour get_color computes for pixel (x, y)
ColourOfPixel(x, y) ==
    Let(get_color(<< FDiv(2 * x * ONE + ONE \div 2, (cpu_screen[1] - 1) * ONE) - ONE,
                     FDiv(2 * y * ONE + ONE \div 2, (cpu_screen[2] - 1) * ONE) - ONE >>,
                  cpu_screen[1], cpu_screen[2], field, render_configuration),
        LAMBDA c : compact_color(<<c[1], c[2], c[3], ONE>>))

\* render_image_cpu has returned
CpuReturned == cpc \in {"single", "exit"}

\* C2: a slot of the image is written at most once, and only with the colour
\* of its own pixel (i % screen_width, i / screen_width); when
\* render_image_cpu has returned, every slot has been written exactly once
\* and the buffer is screen_width * screen_height runs of 4 bytes, run i the
\* colour of pixel i, whatever order the workers finished in.
C2_SlotsHoldOwnPixels ==
    /\ \A s \in DOMAIN cpu_image :
          /\ cpu_image[s].writes <= 1
          /\ cpu_image[s].writes = 1 =>
                /\ cpu_image[s].item = s - 1
                /\ cpu_image[s].bytes =
                      ColourOfPixel((s - 1) % cpu_screen[1], (s - 1) \div cpu_screen[1])
    /\ CpuReturned =>
          /\ Len(cpu_image) = NPixels
          /\ \A s \in DOMAIN cpu_image :
                cpu_image[s].writes = 1 /\ Len(cpu_image[s].bytes) = 4
          /\ Len(cpu_bytes) = 4 * NPixels
          /\ \A i \in 0..(NPixels - 1) : \A c \in 1..4 :
                cpu_bytes[4 * i + c] =
                    ColourOfPixel(i % cpu_screen[1], i \div cpu_screen[1])[c]

\* render_image_cpu has returned an image that is not square and has pixels
\* of different colours, after workers finished out of index order
C2_Witness ==
    /\ CpuReturned
    /\ reordered
    /\ cpu_screen[1] # cpu_screen[2]
    /\ Len(cpu_bytes) = 4 * NPixels
    /\ \E s, t \in DOMAIN cpu_image : cpu_image[s].bytes # cpu_image[t].bytes

\* the bytes of the first k pixels, computed one at a time in index order
RECURSIVE InIndexOrder(_)
InIndexOrder(k) ==
    IF k = 0 THEN <<>>
    ELSE InIndexOrder(k - 1) \o
         PixelBytes(k - 1, cpu_screen[1], cpu_screen[2], field, render_configuration)

C6_StepsBelowTwoRejected ==
    /\ render_configuration.rm_settings.n_steps < 2 => cpc = "config"
    /\ \A m \in marches : m.n_steps >= 2

----------------------------------------------------------------------------
(* Claims about get_color and raymarch (SpecRay). *)

\* the positions the running raymarch is to visit
RayPositions ==
    MarchPositions(pixel_ray.ro, pixel_ray.rd, pixel_ray.near, pixel_ray.far, march.n_steps)

RayReturned == ray_pc = "returned"

\* C12: a sample for which the field returns None adds nothing to the colour
\* and nothing to density_sum, and it is not skipped: raymarch calls the
\* sample function once per step, n_steps times in all, each time at the
\* position of that step on the evenly spaced list.
C12_NoneSamplesAreInert ==
    /\ march.entered =>
          /\ Len(march.calls) <= march.n_steps
          /\ \A k \in 1..Len(march.calls) : march.calls[k].pos = RayPositions[k]
          /\ RayReturned => Len(march.calls) = march.n_steps
    /\ \A k \in 1..Len(march.calls) :
          march.calls[k].none =>
             /\ march.calls[k].color_after = march.calls[k].color_before
             /\ march.calls[k].density_sum_after \in
                   { <<>>, Some(march.calls[k].density_sum_before) }

\* a finished march of three steps in which a None sample lies between two
\* samples of the field, after colour has been gathered
C12_Witness ==
    /\ RayReturned
    /\ march.entered
    /\ Len(march.calls) = 3
    /\ \E k \in 2..3 :
          /\ march.calls[k].none
          /\ march.calls[k].density_sum_after = Some(march.calls[k].density_sum_before)
          /\ march.calls[k].color_before # VZero
          /\ \E j \in 1..(k - 1) : ~march.calls[j].none

\* the pixel's ray leaves some slab of the box (-0.5, 0.5)^3 before it has
\* entered all three
RayMissesBox ==
    Let2([a \in 1..3 |-> SlabParam(pixel_ray.rd[a], BoxLo[a] - pixel_ray.ro[a])],
         [a \in 1..3 |-> SlabParam(pixel_ray.rd[a], BoxHi[a] - pixel_ray.ro[a])],
         LAMBDA lo, hi :
    Let2(SlabNear(lo, hi), SlabFar(lo, hi), LAMBDA near, far :
         near = FNaN \/ far = FNaN \/ near > far))

\* C13: when the camera ray of a pixel misses the box, the pixel is resolved
\* without marching: raymarch is not entered, the sample function is never
\* called, and the colour returned has all three channels zero.
C13_MissReturnsBlackUnmarched ==
    (ray_pc \notin {"get_color", "intersect"} /\ RayMissesBox) =>
        /\ ray_pc \in {"let_else", "returned"}
        /\ ~march.entered
        /\ march.calls = <<>>
        /\ RayReturned => pixel_ray.color = Some(VZero)

\* a pixel of the field-sampling pipeline that missed and has returned
C13_Witness ==
    /\ RayReturned
    /\ RayMissesBox
    /\ pixel_ray.get_info = "color_fn"
    /\ render_configuration.rm_settings.n_steps >= 2
    /\ pixel_ray.color = Some(VZero)
    /\ march.calls = <<>>

\* C16: raymarch run with a sample function whose density is zero returns
\* (0, 0, 0) for every n_steps, n_steps = 1 included, whatever finite colour
\* the function returns.
C16_ZeroDensityIsBlack ==
    (pixel_ray.get_info = "zero_density" /\ march.entered) =>
        /\ march.color = VZero
        /\ march.density_sum = 0
        /\ \A k \in 1..Len(march.calls) :
              /\ march.calls[k].value.density = 0
              /\ march.calls[k].color_after = VZero
        /\ RayReturned => pixel_ray.color = Some(VZero)

\* finished marches of one step and of MaxSteps steps whose samples had
\* colours other than zero
C16_Witness ==
    /\ RayReturned
    /\ pixel_ray.get_info = "zero_density"
    /\ march.entered
    /\ march.n_steps \in {1, MaxSteps}
    /\ Len(march.calls) = march.n_steps
    /\ \A k \in 1..Len(march.calls) : march.calls[k].value.color # VZero
    /\ march.step_size # 0
    /\ pixel_ray.color = Some(VZero)

\* the sum of step_size * density over the calls before the k-th
RECURSIVE DensityOfEarlierSteps(_)
DensityOfEarlierSteps(k) ==
    IF k <= 1 THEN 0
    ELSE DensityOfEarlierSteps(k - 1)
            + FMul(march.step_size, march.calls[k - 1].value.density)

\* C18: the colour a step adds is weighted by the transmittance
\* exp(-density_sum) in which density_sum holds the densities of the earlier
\* steps only; density_sum is raised by the step's own density after its
\* colour has been accumulated, and the first step is weighted by 1.
C18_TransmittanceFromEarlierSteps ==
    /\ \A k \in 1..Len(march.calls) :
          LET c == march.calls[k]
              alpha == ONE - FExp(-FMul(c.value.density, march.step_size))
          IN  /\ c.density_sum_before = DensityOfEarlierSteps(k)
              /\ c.color_after =
                    VAdd(c.color_before,
                         VScale(alpha, VScale(FExp(-DensityOfEarlierSteps(k)), c.value.color)))
              /\ k = 1 => /\ c.density_sum_before = 0
                          /\ c.color_before = VZero
                          /\ c.color_after = VScale(alpha, VScale(ONE, c.value.color))
              /\ c.density_sum_after \in
                    { <<>>, Some(c.density_sum_before + FMul(march.step_size, c.value.density)) }
              /\ c.density_sum_after = <<>> => k = Len(march.calls) /\ ray_pc = "density_sum"
    /\ ray_pc = "density_sum" =>
          /\ march.calls[Len(march.calls)].density_sum_after = <<>>
          /\ march.color = march.calls[Len(march.calls)].color_after
          /\ march.density_sum = march.calls[Len(march.calls)].density_sum_before

\* a finished march whose second or later step added colour behind density
\* gathered by the steps before it
C18_Witness ==
    /\ RayReturned
    /\ \E k \in 2..Len(march.calls) :
          /\ march.calls[k].density_sum_before > 0
          /\ march.calls[k].value.density > 0
          /\ march.calls[k].color_after # march.calls[k].color_before
          /\ FExp(-march.calls[k].density_sum_before) < ONE

\* what field.eval returned for the k-th call, when it returned Some at a
\* position that is a vector
RawValue(k) ==
    eval_trilinear(field,
                   VAdd(march.calls[k].pos.v, <<ONE \div 2, ONE \div 2, ONE \div 2>>),
                   pixel_ray.rd)[1]

SamplesInRange ==
    pixel_ray.get_info = "color_fn" =>
        \A k \in 1..Len(march.calls) :
            /\ march.calls[k].value.density >= 0
            /\ \A a \in 1..3 : /\ march.calls[k].value.color[a] >= 0
                               /\ march.calls[k].value.color[a] <= ONE

\* C19: every sample color_fn hands to the accumulation has density >= 0 and
\* colour channels in [0, 1], whatever the field stores (negative densities
\* included) and for samples outside the field; the stored field is not
\* modified by it.
C19_SamplesClampedFieldKept == [] SamplesInRange /\ [][field' = field]_vars

\* a march in which a sample of negative blended density and a sample
\* outside the field were handed on
C19_Witness ==
    /\ RayReturned
    /\ pixel_ray.get_info = "color_fn"
    /\ field \in CpuFieldInputs
    /\ \E k \in 1..Len(march.calls) :
          /\ ~march.calls[k].none /\ ~march.calls[k].pos.nan
          /\ RawValue(k).density < 0
          /\ march.calls[k].value.density = 0
    /\ \E k \in 1..Len(march.calls) : march.calls[k].none

\* C20: whenever get_color calls raymarch, the interval it passes satisfies
\* 0 <= near <= far, so step_size >= 0 and the march only goes forward, for
\* every camera ray reported as hitting the box, the rays whose box lies
\* entirely behind the origin (far < 0) included.
C20_MarchIntervalForward ==
    march.entered =>
        /\ 0 <= pixel_ray.near
        /\ pixel_ray.near <= pixel_ray.far
        /\ march.n_steps > 0 => march.step_size >= 0

\* C21: for every screen with width >= 2 and height >= 2 and every pixel
\* (x, y) of it, the normalized screen coordinate the CPU renderer computes,
\* ((2x + 0.5) / (width - 1) - 1, (2y + 0.5) / (height - 1) - 1), lies in
\* [-1, 1] on both axes; the coordinate is looked at once get_color has built
\* the camera ray from it.
C21_ScreenCoordNormalized ==
    ( /\ ray_pc \notin {"idle", "get_color"}
      /\ cpu_screen[1] >= 2 /\ cpu_screen[2] >= 2
      /\ pixel_ray.item \in 0..(NPixels - 1)
      /\ pixel_ray.coord = ScreenCoord(PixelXY(pixel_ray.item, cpu_screen[1]),
                                       cpu_screen[1], cpu_screen[2]) )
    => \A a \in 1..2 : -ONE <= pixel_ray.coord[a] /\ pixel_ray.coord[a] <= ONE

----------------------------------------------------------------------------
(* Claims about intersect_ray_box (SpecBox). *)

\* the slab parameters of the call on axis a: inverse_rd * (bound - ro)
BoxCallLo == [a \in 1..3 |-> SlabParam(box_call.rd[a], box_call.box_lo[a] - box_call.ro[a])]

BoxCallHi == [a \in 1..3 |-> SlabParam(box_call.rd[a], box_call.box_hi[a] - box_call.ro[a])]

\* the smaller and the larger slab parameter of each axis
BoxCallSmaller == [a \in 1..3 |-> FMin(BoxCallLo[a], BoxCallHi[a])]

BoxCallLarger == [a \in 1..3 |-> FMax(BoxCallLo[a], BoxCallHi[a])]

\* x is the greatest (least) of the numbers among v[1], v[2], v[3], or NaN
\* when none of them is a number
IsMaxOf(x, v) ==
    IF \A a \in 1..3 : v[a] = FNaN THEN x = FNaN
    ELSE /\ \E a \in 1..3 : x = v[a] /\ v[a] # FNaN
         /\ \A a \in 1..3 : v[a] # FNaN => v[a] <= x

IsMinOf(x, v) ==
    IF \A a \in 1..3 : v[a] = FNaN THEN x = FNaN
    ELSE /\ \E a \in 1..3 : x = v[a] /\ v[a] # FNaN
         /\ \A a \in 1..3 : v[a] # FNaN => v[a] >= x

\* C15: intersect_ray_box returns Some((near, far)) exactly when near <= far,
\* near being the maximum over the axes of the smaller slab parameter and far
\* the minimum over the axes of the larger one, and None when near > far;
\* every returned pair has near <= far; for the box (-0.5)^3..(0.5)^3, origin
\* (0, 0, -2) and direction (0, 0, 1) the result is (1.5, 2.5).
C15_IntersectRayBox ==
    box_call.called =>
        \E near \in { BoxCallSmaller[a] : a \in 1..3 }, far \in { BoxCallLarger[a] : a \in 1..3 } :
            /\ IsMaxOf(near, BoxCallSmaller)
            /\ IsMinOf(far, BoxCallLarger)
            /\ (near # FNaN /\ far # FNaN /\ near <= far) => box_call.result = Some(<<near, far>>)
            /\ (near # FNaN /\ far # FNaN /\ near > far) => box_call.result = None
            /\ IsSome(box_call.result) =>
                  /\ box_call.result = Some(<<near, far>>)
                  /\ near # FNaN /\ far # FNaN
                  /\ box_call.result[1][1] <= box_call.result[1][2]
            /\ ( /\ box_call.ro = <<0, 0, -(2 * ONE)>>
                 /\ box_call.rd = <<0, 0, ONE>>
                 /\ box_call.box_lo = BoxLo
                 /\ box_call.box_hi = BoxHi )
               => box_call.result = Some(<< 2 * ONE - ONE \div 2, 2 * ONE + ONE \div 2 >>)

\* the call of the example has returned (1.5, 2.5)
C15_Witness ==
    /\ box_call.called
    /\ box_call.ro = <<0, 0, -(2 * ONE)>>
    /\ box_call.rd = <<0, 0, ONE>>
    /\ box_call.box_lo = BoxLo
    /\ box_call.box_hi = BoxHi
    /\ box_call.result = Some(<< (3 * ONE) \div 2, (5 * ONE) \div 2 >>)

====
